---------------------------- MODULE Spec2Model ----------------------------
(***************************************************************************)
(* A model of zdiff.py: the similarity scorer (line_similarity_score),     *)
(* the chunk aligner (iter_aligned_chunk_rows), the intra-line highlighter *)
(* (get_block_level_diff) and the display-width engine (visible_length,    *)
(* clip_visible, pad_visible).                                             *)
(*                                                                         *)
(* A line is a sequence of characters, a character a one-element string.   *)
(* Offsets into lines and blocks are 0-based as in the source; At(s, i) is *)
(* Python's s[i].  Scores are exact rationals <<num, den>> with den > 0.   *)
(***************************************************************************)
EXTENDS Integers, Sequences, FiniteSets, TLC

VARIABLES
    \* ---- line_similarity_score(old_line, new_line), called both ways
    sc_pc, sc_a, sc_b, sc_ab, sc_ba,
    \* ---- iter_aligned_chunk_rows(old_chunk, new_chunk, old_start, new_start)
    al_pc, old_chunk, new_chunk, old_start, new_start, path,
    sim, dp, bt, bi, bj, ops, rows,
    \* ---- get_block_level_diff(old_text, new_text)
    hl_pc, old_text, new_text,
    change_regions_old, change_regions_new,
    expanded_old, expanded_new, merged_old, merged_new,
    old_highlighted, new_highlighted,
    \* ---- clip_visible(text, width) / pad_visible(text, width)
    dw_pc, dw_text, dw_width, dw_out

scoreVars == <<sc_pc, sc_a, sc_b, sc_ab, sc_ba>>
alignVars == <<al_pc, old_chunk, new_chunk, old_start, new_start, path,
               sim, dp, bt, bi, bj, ops, rows>>
hlVars    == <<hl_pc, old_text, new_text, change_regions_old, change_regions_new,
               expanded_old, expanded_new, merged_old, merged_new,
               old_highlighted, new_highlighted>>
widthVars == <<dw_pc, dw_text, dw_width, dw_out>>
vars      == <<scoreVars, alignVars, hlVars, widthVars>>

otherThanScore == <<alignVars, hlVars, widthVars>>
otherThanAlign == <<scoreVars, hlVars, widthVars>>
otherThanHl    == <<scoreVars, alignVars, widthVars>>
otherThanWidth == <<scoreVars, alignVars, hlVars>>

-----------------------------------------------------------------------------
(* Generic helpers *)

Range(s) == {s[k] : k \in 1..Len(s)}

At(s, i) == s[i + 1]

\* Python's s[lo:hi] for 0 <= lo, hi <= len(s)
Slice(s, lo, hi) == IF lo >= hi THEN <<>> ELSE SubSeq(s, lo + 1, hi)

Min(x, y) == IF x <= y THEN x ELSE y

Max(x, y) == IF x >= y THEN x ELSE y

\* all sequences over S of length at most n
SeqsUpTo(S, n) == UNION {[1..k -> S] : k \in 0..n}

Rep(x, n) == [k \in 1..n |-> x]

RECURSIVE Gcd(_, _)
Gcd(x, y) == IF y = 0 THEN x ELSE Gcd(y, x % y)

Abs(x) == IF x < 0 THEN -x ELSE x

\* exact rationals: <<num, den>>, den > 0, in lowest terms
Rat(n, d) == LET g == Gcd(Abs(n), d) IN <<n \div g, d \div g>>

RAdd(x, y) == Rat(x[1] * y[2] + y[1] * x[2], x[2] * y[2])

RLess(x, y) == x[1] * y[2] < y[1] * x[2]

RLeq(x, y) == x[1] * y[2] <= y[1] * x[2]

RMax(x, y) == IF RLess(x, y) THEN y ELSE x

-----------------------------------------------------------------------------
(* Characters *)

Letters == {"a", "b", "c", "d", "e", "f", "g", "h", "i", "k", "l", "m", "n",
            "o", "p", "r", "s", "t", "u", "x"}

Digits == {"0", "1", "2", "3", "4", "5", "6", "7", "8", "9"}

\* str.isspace()
IsSpace(c) == c \in {" ", "\t", "\n", "\r"}

\* str.isalnum()
IsAlnum(c) == c \in Letters \cup Digits

\* "\x1b"; a character that is not printable ASCII is a string naming it
ESC == "ESC"

\* Colors.RESET
RESET == <<ESC, "[", "0", "m">>

\* is_word_char: part of an identifier (alnum or underscore)
is_word_char(c) == IsAlnum(c) \/ c = "_"

-----------------------------------------------------------------------------
(* difflib.SequenceMatcher(None, a, b, autojunk), as the source uses it:   *)
(* no junk predicate; with autojunk, elements of b that occur more than    *)
(* len(b) // 100 + 1 times in a b of 200 or more elements are "popular"    *)
(* and cannot start or continue the core of a match.                       *)

Popular(b, autojunk) ==
    IF autojunk /\ Len(b) >= 200
    THEN {e \in Range(b) :
            Cardinality({k \in 1..Len(b) : b[k] = e}) > (Len(b) \div 100) + 1}
    ELSE {}

\* the least element of a non-empty set of integers
Least(S) == CHOOSE t \in S : \A u \in S : t <= u

\* length of the common run of non-popular elements starting at (i, j)
RunLen(a, b, pop, i, j, ahi, bhi) ==
    LET lim   == Min(ahi - i, bhi - j)
        stops == {t \in 0..(lim - 1) :
                    ~(At(a, i + t) = At(b, j + t) /\ At(a, i + t) \notin pop)}
    IN  IF stops = {} THEN lim ELSE Least(stops)

\* first loop after the search: grow the match backwards over equal elements
ExtendBack(a, b, m, alo, blo) ==
    LET lim   == Min(m[1] - alo, m[2] - blo)
        stops == {t \in 0..(lim - 1) : At(a, m[1] - 1 - t) # At(b, m[2] - 1 - t)}
        k     == IF stops = {} THEN lim ELSE Least(stops)
    IN  <<m[1] - k, m[2] - k, m[3] + k>>

\* second loop: grow the match forwards over equal elements
ExtendFwd(a, b, m, ahi, bhi) ==
    LET lim   == Min(ahi - m[1] - m[3], bhi - m[2] - m[3])
        stops == {t \in 0..(lim - 1) :
                    At(a, m[1] + m[3] + t) # At(b, m[2] + m[3] + t)}
        k     == IF stops = {} THEN lim ELSE Least(stops)
    IN  <<m[1], m[2], m[3] + k>>

\* find_longest_match(alo, ahi, blo, bhi): the longest run, earliest in a,
\* then earliest in b; (alo, blo, 0) when there is none; then extended.
\* (The junk-extension loops never run: there is no junk predicate.)
find_longest_match(a, b, pop, alo, ahi, blo, bhi) ==
    LET I    == {i \in alo..(ahi - 1) : At(a, i) \notin pop}
        cand == {<<i, j>> \in I \X (blo..(bhi - 1)) : At(a, i) = At(b, j)}
        runs == {<<c[1], c[2], RunLen(a, b, pop, c[1], c[2], ahi, bhi)>> : c \in cand}
        best == IF runs = {} THEN <<alo, blo, 0>>
                ELSE CHOOSE r \in runs :
                        \A q \in runs :
                            \/ q[3] < r[3]
                            \/ q[3] = r[3] /\ (r[1] < q[1] \/ (r[1] = q[1] /\ r[2] <= q[2]))
    IN  ExtendFwd(a, b, ExtendBack(a, b, best, alo, blo), ahi, bhi)

\* the recursive part of get_matching_blocks, in sorted order
RECURSIVE MatchRec(_, _, _, _, _, _, _)
MatchRec(a, b, pop, alo, ahi, blo, bhi) ==
    LET m == find_longest_match(a, b, pop, alo, ahi, blo, bhi)
    IN  IF m[3] = 0 THEN <<>>
        ELSE (IF alo < m[1] /\ blo < m[2]
              THEN MatchRec(a, b, pop, alo, m[1], blo, m[2]) ELSE <<>>)
             \o <<m>>
             \o (IF m[1] + m[3] < ahi /\ m[2] + m[3] < bhi
                 THEN MatchRec(a, b, pop, m[1] + m[3], ahi, m[2] + m[3], bhi)
                 ELSE <<>>)

\* collapse adjacent equal blocks
RECURSIVE Collapse(_, _)
Collapse(blocks, acc) ==
    IF blocks = <<>> THEN acc
    ELSE LET m == Head(blocks)
             l == IF acc = <<>> THEN <<0, 0, 0>> ELSE acc[Len(acc)]
         IN  IF acc # <<>> /\ l[1] + l[3] = m[1] /\ l[2] + l[3] = m[2]
             THEN Collapse(Tail(blocks),
                           [acc EXCEPT ![Len(acc)] = <<l[1], l[2], l[3] + m[3]>>])
             ELSE Collapse(Tail(blocks), Append(acc, m))

\* get_matching_blocks(): triples (i, j, size), ending with (len(a), len(b), 0)
get_matching_blocks(a, b, autojunk) ==
    Append(Collapse(MatchRec(a, b, Popular(b, autojunk), 0, Len(a), 0, Len(b)), <<>>),
           <<Len(a), Len(b), 0>>)

\* get_opcodes(): <<tag, i1, i2, j1, j2>>
RECURSIVE OpcodesFrom(_, _, _)
OpcodesFrom(blocks, i, j) ==
    IF blocks = <<>> THEN <<>>
    ELSE LET m   == Head(blocks)
             tag == IF i < m[1] /\ j < m[2] THEN "replace"
                    ELSE IF i < m[1] THEN "delete"
                    ELSE IF j < m[2] THEN "insert"
                    ELSE ""
         IN  (IF tag # "" THEN <<<<tag, i, m[1], j, m[2]>>>> ELSE <<>>)
             \o (IF m[3] > 0
                 THEN <<<<"equal", m[1], m[1] + m[3], m[2], m[2] + m[3]>>>>
                 ELSE <<>>)
             \o OpcodesFrom(Tail(blocks), m[1] + m[3], m[2] + m[3])

get_opcodes(a, b, autojunk) == OpcodesFrom(get_matching_blocks(a, b, autojunk), 0, 0)

RECURSIVE SumSizes(_)
SumSizes(blocks) == IF blocks = <<>> THEN 0 ELSE Head(blocks)[3] + SumSizes(Tail(blocks))

\* a ratio that forgets to count the matches on both sides
ratio_MatchesOnce(a, b, autojunk) ==
    IF Len(a) + Len(b) = 0 THEN <<1, 1>>
    ELSE Rat(SumSizes(get_matching_blocks(a, b, autojunk)), Len(a) + Len(b))

\* ratio(): 2.0 * matches / (len(a) + len(b)), and 1.0 for two empty sequences
ratio(a, b, autojunk) ==
    IF Len(a) + Len(b) = 0 THEN <<1, 1>>
    ELSE Rat(2 * SumSizes(get_matching_blocks(a, b, autojunk)), Len(a) + Len(b))

-----------------------------------------------------------------------------
(* Similarity scorer *)

\* WORD_RE.findall(line): the maximal runs of word characters
RECURSIVE WordTokens(_, _, _)
WordTokens(line, i, cur) ==
    IF i >= Len(line) THEN (IF cur = <<>> THEN <<>> ELSE <<cur>>)
    ELSE IF is_word_char(At(line, i)) THEN WordTokens(line, i + 1, Append(cur, At(line, i)))
    ELSE (IF cur = <<>> THEN <<>> ELSE <<cur>>) \o WordTokens(line, i + 1, <<>>)

line_similarity_score(old_line, new_line) ==
    LET char_ratio  == ratio(old_line, new_line, FALSE)
        old_tokens  == WordTokens(old_line, 0, <<>>)
        new_tokens  == WordTokens(new_line, 0, <<>>)
        token_ratio == IF old_tokens # <<>> /\ new_tokens # <<>>
                       THEN ratio(old_tokens, new_tokens, FALSE)
                       ELSE <<0, 1>>
    IN  RMax(char_ratio, token_ratio)

\* ---- the scorer called on a pair of lines, in both orders

ScoreChars == {"a", "b", " "}

\* longest line scored
MaxScoreLen == 4

ScoreLines == SeqsUpTo(ScoreChars, MaxScoreLen)

ScoreInit ==
    /\ sc_pc = "start"
    /\ sc_a \in ScoreLines
    /\ sc_b \in ScoreLines
    /\ sc_ab = <<0, 1>>
    /\ sc_ba = <<0, 1>>

\* line_similarity_score(a, b)
ScoreForward ==
    /\ sc_pc = "start"
    /\ sc_ab' = line_similarity_score(sc_a, sc_b)
    /\ sc_pc' = "forward"
    /\ UNCHANGED <<sc_a, sc_b, sc_ba>>
    /\ UNCHANGED otherThanScore

\* line_similarity_score(b, a)
ScoreBackward ==
    /\ sc_pc = "forward"
    /\ sc_ba' = line_similarity_score(sc_b, sc_a)
    /\ sc_pc' = "done"
    /\ UNCHANGED <<sc_a, sc_b, sc_ab>>
    /\ UNCHANGED otherThanScore

ScoreNext == ScoreForward \/ ScoreBackward

-----------------------------------------------------------------------------
(* Chunk aligner: iter_aligned_chunk_rows *)

\* n_old * n_new above this takes the fallback
SafetyThreshold == 50000

pair_threshold == <<9, 20>>

gap_penalty == <<-7, 20>>

\* float('-inf')
neg_inf == <<-1, 0>>

\* x > y on scores that may be neg_inf
ScoreGreater(x, y) ==
    IF x = neg_inf THEN FALSE
    ELSE IF y = neg_inf THEN TRUE
    ELSE RLess(y, x)

\* a paired row whose new line number is offset by the old block's start
PairRow_NewNoFromOldStart(tag, old_idx, new_idx) ==
    [tag      |-> tag,
     old_no   |-> old_start + old_idx + 1,
     old_line |-> At(old_chunk, old_idx),
     new_no   |-> old_start + new_idx + 1,
     new_line |-> At(new_chunk, new_idx)]

\* the rows the generator yields; a field that the source sets to None is absent
PairRow(tag, old_idx, new_idx) ==
    [tag      |-> tag,
     old_no   |-> old_start + old_idx + 1,
     old_line |-> At(old_chunk, old_idx),
     new_no   |-> new_start + new_idx + 1,
     new_line |-> At(new_chunk, new_idx)]

DeleteRow(old_idx) ==
    [tag      |-> "delete",
     old_no   |-> old_start + old_idx + 1,
     old_line |-> At(old_chunk, old_idx)]

InsertRow(new_idx) ==
    [tag      |-> "insert",
     new_no   |-> new_start + new_idx + 1,
     new_line |-> At(new_chunk, new_idx)]

\* a replace opcode whose unpaired new lines are forgotten
OpcodeRows_NoLeftoverInsert(op) ==
    IF op[1] = "replace"
    THEN [idx \in 1..Min(op[3] - op[2], op[5] - op[4]) |->
             PairRow("replace", op[2] + idx - 1, op[4] + idx - 1)]
         \o [k \in 1..(op[3] - op[2] - Min(op[3] - op[2], op[5] - op[4])) |->
                DeleteRow(op[2] + Min(op[3] - op[2], op[5] - op[4]) + k - 1)]
    ELSE IF op[1] = "equal"
    THEN [idx \in 1..(op[3] - op[2]) |-> PairRow("equal", op[2] + idx - 1, op[4] + idx - 1)]
    ELSE IF op[1] = "delete"
    THEN [k \in 1..(op[3] - op[2]) |-> DeleteRow(op[2] + k - 1)]
    ELSE [k \in 1..(op[5] - op[4]) |-> InsertRow(op[4] + k - 1)]

\* the rows of one opcode of the fallback
OpcodeRows(op) ==
    LET tag == op[1]
        i1  == op[2]
        i2  == op[3]
        j1  == op[4]
        j2  == op[5]
        n_pairs == Min(i2 - i1, j2 - j1)
    IN  IF tag = "equal"
        THEN [idx \in 1..(i2 - i1) |-> PairRow("equal", i1 + idx - 1, j1 + idx - 1)]
        ELSE IF tag = "delete"
        THEN [k \in 1..(i2 - i1) |-> DeleteRow(i1 + k - 1)]
        ELSE IF tag = "insert"
        THEN [k \in 1..(j2 - j1) |-> InsertRow(j1 + k - 1)]
        ELSE \* replace
             [idx \in 1..n_pairs |-> PairRow("replace", i1 + idx - 1, j1 + idx - 1)]
             \o [k \in 1..(i2 - i1 - n_pairs) |-> DeleteRow(i1 + n_pairs + k - 1)]
             \o [k \in 1..(j2 - j1 - n_pairs) |-> InsertRow(j1 + n_pairs + k - 1)]

RECURSIVE FallbackRows(_)
FallbackRows(opcodes) ==
    IF opcodes = <<>> THEN <<>>
    ELSE OpcodeRows(Head(opcodes)) \o FallbackRows(Tail(opcodes))

\* the guard of the safety fallback
UseFallback_AtThreshold(n_old, n_new) == n_old * n_new >= SafetyThreshold

UseFallback(n_old, n_new) == n_old * n_new > SafetyThreshold

\* the similarity matrix, sim[i][j] for 0 <= i < n_old, 0 <= j < n_new
SimMatrix ==
    [i \in 1..Len(old_chunk) |->
        [j \in 1..Len(new_chunk) |-> line_similarity_score(old_chunk[i], new_chunk[j])]]

\* the tables after their allocation and the two base-case loops
\* gap_penalty added k times
GapTimes(k) == Rat(k * gap_penalty[1], gap_penalty[2])

InitialDp ==
    [i \in 1..(Len(old_chunk) + 1) |->
        [j \in 1..(Len(new_chunk) + 1) |->
            IF j = 1 THEN GapTimes(i - 1)
            ELSE IF i = 1 THEN GapTimes(j - 1)
            ELSE <<0, 1>>]]

InitialBt ==
    [i \in 1..(Len(old_chunk) + 1) |->
        [j \in 1..(Len(new_chunk) + 1) |->
            IF j = 1 /\ i > 1 THEN "delete"
            ELSE IF i = 1 /\ j > 1 THEN "insert"
            ELSE ""]]

\* a pairing that is eligible whatever the similarity
PairScore_NoThreshold(diag, s) == RAdd(diag, s)

\* pair_score of a cell, from dp[i-1][j-1] and sim[i-1][j-1]
PairScore(diag, s) == IF RLeq(pair_threshold, s) THEN RAdd(diag, s) ELSE neg_inf

\* a cell in which an insert that ties with the choice so far replaces it
Cell_InsertOnTie(diag, up, left, s) ==
    LET pair_score   == PairScore(diag, s)
        delete_score == RAdd(up, gap_penalty)
        insert_score == RAdd(left, gap_penalty)
        afterDelete  == IF ScoreGreater(delete_score, pair_score)
                        THEN <<delete_score, "delete">>
                        ELSE <<pair_score, "pair">>
    IN  IF ~ScoreGreater(afterDelete[1], insert_score)
        THEN <<insert_score, "insert">>
        ELSE afterDelete

\* a cell in which a gap that ties with the choice so far replaces it
Cell_LastTieWins(diag, up, left, s) ==
    LET pair_score   == PairScore(diag, s)
        delete_score == RAdd(up, gap_penalty)
        insert_score == RAdd(left, gap_penalty)
        afterDelete  == IF ~ScoreGreater(pair_score, delete_score)
                        THEN <<delete_score, "delete">>
                        ELSE <<pair_score, "pair">>
    IN  IF ~ScoreGreater(afterDelete[1], insert_score)
        THEN <<insert_score, "insert">>
        ELSE afterDelete

\* a cell that never considers pairing
Cell_GapsOnly(diag, up, left, s) ==
    IF RLess(RAdd(up, gap_penalty), RAdd(left, gap_penalty))
    THEN <<RAdd(left, gap_penalty), "insert">>
    ELSE <<RAdd(up, gap_penalty), "delete">>

\* one cell of the recurrence: <<best, op>>
Cell(diag, up, left, s) ==
    LET pair_score   == PairScore(diag, s)
        delete_score == RAdd(up, gap_penalty)
        insert_score == RAdd(left, gap_penalty)
        afterDelete  == IF ScoreGreater(delete_score, pair_score)
                        THEN <<delete_score, "delete">>
                        ELSE <<pair_score, "pair">>
    IN  IF ScoreGreater(insert_score, afterDelete[1])
        THEN <<insert_score, "insert">>
        ELSE afterDelete

\* the inner loop over j = lo..hi of row i (1 <= i <= n_old); `before` holds
\* the cells <<best, op>> of j = 0..lo-1
RECURSIVE RowChunk(_, _, _, _)
RowChunk(i, before, lo, hi) ==
    IF hi < lo THEN before
    ELSE LET prev == RowChunk(i, before, lo, hi - 1)
         IN  Append(prev, Cell(At(At(dp, i - 1), hi - 1),
                               At(At(dp, i - 1), hi),
                               prev[Len(prev)][1],
                               At(At(sim, i - 1), hi - 1)))

\* row i of the tables, cells j = 0..upto; cell 0 is the base case.  The loop
\* is evaluated sixteen cells at a time, each stretch after the one before it.
RECURSIVE RowCells(_, _)
RowCells(i, upto) ==
    IF upto = 0 THEN << <<At(At(dp, i), 0), At(At(bt, i), 0)>> >>
    ELSE LET lo     == ((upto - 1) \div 16) * 16 + 1
             before == RowCells(i, lo - 1)
         IN  IF Len(before) = lo THEN RowChunk(i, before, lo, upto) ELSE <<>>

\* the two tables after the pass i of the outer loop
FilledTables(i) ==
    LET cells == RowCells(i, Len(new_chunk))
    IN  <<[dp EXCEPT ![i + 1] = [j \in 1..Len(cells) |-> cells[j][1]]],
          [bt EXCEPT ![i + 1] = [j \in 1..Len(cells) |-> cells[j][2]]]>>

\* one pass of the backtrack loop from (i, j): <<i, j, operation appended>>
BacktrackOp(i, j) ==
    LET op == At(At(bt, i), j)
    IN  IF op = "pair"
        THEN <<i - 1, j - 1,
               [tag |-> IF At(old_chunk, i - 1) = At(new_chunk, j - 1)
                        THEN "equal" ELSE "replace",
                old_idx |-> i - 1, new_idx |-> j - 1]>>
        ELSE IF op = "delete"
        THEN <<i - 1, j, [tag |-> "delete", old_idx |-> i - 1]>>
        ELSE <<i, j - 1, [tag |-> "insert", new_idx |-> j - 1]>>

\* ---- the blocks the aligner is called with

Apple == <<"a", "p", "p", "l", "e">>

Banana == <<"b", "a", "n", "a", "n", "a">>

\* two lines similar enough to pair (score 1/2), and a filler line
LineAB == <<"a", "b">>

LineAC == <<"a", "c">>

LineP == <<"p">>

FuncAdd == <<"f", "u", "n", "c", " ", "a", "d", "d", "(", "a", ",", " ", "b", ")", ":">>

ReturnTight == <<" ", " ", " ", " ", "r", "e", "t", "u", "r", "n", " ", "a", "+", "b">>

ReturnSpaced == <<" ", " ", " ", " ", "r", "e", "t", "u", "r", "n", " ", "a", " ", "+", " ", "b">>

AlignLines == {Apple, Banana, LineAB, LineAC}

\* longest small block
MaxBlock == 2

\* lengths of the large blocks: BigOld * BigNew is exactly the threshold
BigOld == 250

BigNew == 200

\* first line number offsets of the block in the two documents
Starts == {<<0, 0>>, <<3, 7>>}

BigEnds == {<<>>, <<LineAB>>, <<LineAC>>, <<LineAC, LineAB>>}

\* ends \o filler lines \o ends, n lines in all
BigBlock(head, tail, n) == head \o Rep(LineP, n - Len(head) - Len(tail)) \o tail

SmallInputs == SeqsUpTo(AlignLines, MaxBlock) \X SeqsUpTo(AlignLines, MaxBlock)

\* large blocks one line over the threshold product
BigFallbackInputs ==
    {<<BigBlock(ho, to, BigOld), BigBlock(hn, tn, BigNew + 1)>> :
        ho \in BigEnds, to \in BigEnds, hn \in BigEnds, tn \in BigEnds}

\* a large block pair at the threshold product
BigDpInputs == {<<Rep(LineP, BigOld), BigBlock(<<LineAB>>, <<>>, BigNew)>>}

AlignInputs == SmallInputs \cup BigFallbackInputs

\* the large blocks on both sides of the threshold, and the scenario blocks
EdgeInputs ==
    BigDpInputs \cup BigFallbackInputs
    \cup {<<Rep(LineP, 300), BigBlock(<<LineAB>>, <<>>, 300)>>,
          <<<<Apple>>, <<Apple, Banana>>>>,
          <<<<FuncAdd, ReturnTight>>, <<FuncAdd, ReturnSpaced>>>>}

AlignIdle ==
    /\ al_pc = "idle" /\ old_chunk = <<>> /\ new_chunk = <<>>
    /\ old_start = 0 /\ new_start = 0 /\ path = "none"
    /\ sim = <<>> /\ dp = <<>> /\ bt = <<>> /\ bi = 0 /\ bj = 0
    /\ ops = <<>> /\ rows = <<>>

AlignInitWith(inputs, starts) ==
    /\ al_pc = "start"
    /\ \E inp \in inputs : old_chunk = inp[1] /\ new_chunk = inp[2]
    /\ \E st \in starts : old_start = st[1] /\ new_start = st[2]
    /\ path = "none"
    /\ sim = <<>> /\ dp = <<>> /\ bt = <<>> /\ bi = 0 /\ bj = 0
    /\ ops = <<>> /\ rows = <<>>

\* lines 178-182: the size guard
ChoosePath ==
    /\ al_pc = "start"
    /\ IF UseFallback(Len(old_chunk), Len(new_chunk))
       THEN path' = "fallback" /\ al_pc' = "fallback"
       ELSE path' = "dp" /\ al_pc' = "sim"
    /\ UNCHANGED <<old_chunk, new_chunk, old_start, new_start,
                   sim, dp, bt, bi, bj, ops, rows>>
    /\ UNCHANGED otherThanAlign

\* lines 183-242: the rows of the opcodes of the two blocks, then return
Fallback ==
    /\ al_pc = "fallback"
    /\ rows' = FallbackRows(get_opcodes(old_chunk, new_chunk, TRUE))
    /\ al_pc' = "done"
    /\ UNCHANGED <<old_chunk, new_chunk, old_start, new_start, path,
                   sim, dp, bt, bi, bj, ops>>
    /\ UNCHANGED otherThanAlign

\* lines 247-251
ComputeSim ==
    /\ al_pc = "sim"
    /\ sim' = SimMatrix
    /\ al_pc' = "tables"
    /\ UNCHANGED <<old_chunk, new_chunk, old_start, new_start, path,
                   dp, bt, bi, bj, ops, rows>>
    /\ UNCHANGED otherThanAlign

\* lines 253-262
InitTables ==
    /\ al_pc = "tables"
    /\ dp' = InitialDp
    /\ bt' = InitialBt
    /\ bi' = 1
    /\ al_pc' = "fill"
    /\ UNCHANGED <<old_chunk, new_chunk, old_start, new_start, path,
                   sim, bj, ops, rows>>
    /\ UNCHANGED otherThanAlign

\* lines 265-286: one pass of the outer loop, row bi of both tables
FillRow ==
    /\ al_pc = "fill"
    /\ bi <= Len(old_chunk)
    /\ dp' = FilledTables(bi)[1]
    /\ bt' = FilledTables(bi)[2]
    /\ bi' = bi + 1
    /\ UNCHANGED <<al_pc, old_chunk, new_chunk, old_start, new_start, path,
                   sim, bj, ops, rows>>
    /\ UNCHANGED otherThanAlign

\* lines 289-291
StartBacktrack ==
    /\ al_pc = "fill"
    /\ bi > Len(old_chunk)
    /\ bi' = Len(old_chunk)
    /\ bj' = Len(new_chunk)
    /\ ops' = <<>>
    /\ al_pc' = "backtrack"
    /\ UNCHANGED <<old_chunk, new_chunk, old_start, new_start, path,
                   sim, dp, bt, rows>>
    /\ UNCHANGED otherThanAlign

\* lines 292-306: one pass of the backtrack loop
BacktrackStep ==
    /\ al_pc = "backtrack"
    /\ ~(bi = 0 /\ bj = 0)
    /\ bi' = BacktrackOp(bi, bj)[1]
    /\ bj' = BacktrackOp(bi, bj)[2]
    /\ ops' = Append(ops, BacktrackOp(bi, bj)[3])
    /\ UNCHANGED <<al_pc, old_chunk, new_chunk, old_start, new_start, path,
                   sim, dp, bt, rows>>
    /\ UNCHANGED otherThanAlign

\* the row of one backtracked operation (lines 310-342)
OpRow(op) ==
    IF op.tag \in {"equal", "replace"} THEN PairRow(op.tag, op.old_idx, op.new_idx)
    ELSE IF op.tag = "delete" THEN DeleteRow(op.old_idx)
    ELSE InsertRow(op.new_idx)

\* lines 308-342: reverse the operations and yield their rows
Emit ==
    /\ al_pc = "backtrack"
    /\ bi = 0 /\ bj = 0
    /\ ops' = [k \in 1..Len(ops) |-> ops[Len(ops) + 1 - k]]
    /\ rows' = [k \in 1..Len(ops) |-> OpRow(ops[Len(ops) + 1 - k])]
    /\ al_pc' = "done"
    /\ UNCHANGED <<old_chunk, new_chunk, old_start, new_start, path,
                   sim, dp, bt, bi, bj>>
    /\ UNCHANGED otherThanAlign

AlignNext ==
    \/ ChoosePath
    \/ Fallback
    \/ ComputeSim
    \/ InitTables
    \/ FillRow
    \/ StartBacktrack
    \/ BacktrackStep
    \/ Emit

-----------------------------------------------------------------------------
(* Intra-line highlighter: get_block_level_diff.  A region is <<start, end>>. *)

\* Colors.DEL_BG
DEL_BG == <<ESC, "[", "4", "8", ";", "5", ";", "7", "4", "m", ESC, "[", "3", "7", "m">>

\* Colors.ADD_BG
ADD_BG == <<ESC, "[", "4", "8", ";", "5", ";", "3", "6", "m", ESC, "[", "3", "7", "m">>

\* Colors.RED_SPACE_BG
RED_SPACE_BG == <<ESC, "[", "4", "8", ";", "5", ";", "8", "8", "m">>

\* Colors.GREEN_SPACE_BG
GREEN_SPACE_BG == <<ESC, "[", "4", "2", "m">>

\* Colors.LINE_DEL_BG, the default old_line_bg
LINE_DEL_BG == <<ESC, "[", "4", "8", ";", "5", ";", "6", "7", "m", ESC, "[", "3", "7", "m">>

\* Colors.LINE_ADD_BG, the default new_line_bg
LINE_ADD_BG == <<ESC, "[", "4", "8", ";", "5", ";", "6", "5", "m", ESC, "[", "3", "7", "m">>

\* any(ch.isspace() for ch in block)
AnySpace(block) == \E k \in 1..Len(block) : IsSpace(block[k])

\* block.strip() is not empty
StripsToSomething(block) == \E k \in 1..Len(block) : ~IsSpace(block[k])

\* trim_insert_region, first loop: the leading fragment borrowed from the old
\* right context; <<start, right_idx>>
RECURSIVE TrimLeadWord(_, _, _, _, _)
TrimLeadWord(old, new, start, end, right_idx) ==
    IF start < end /\ right_idx < Len(old)
       /\ is_word_char(At(new, start)) /\ is_word_char(At(old, right_idx))
       /\ At(new, start) = At(old, right_idx)
    THEN TrimLeadWord(old, new, start + 1, end, right_idx + 1)
    ELSE <<start, right_idx>>

\* second loop: spaces matched on both sides; the new start
RECURSIVE TrimLeadSpace(_, _, _, _, _)
TrimLeadSpace(old, new, start, end, right_idx) ==
    IF start < end /\ right_idx < Len(old)
       /\ IsSpace(At(new, start)) /\ IsSpace(At(old, right_idx))
    THEN TrimLeadSpace(old, new, start + 1, end, right_idx + 1)
    ELSE start

\* third loop: the trailing fragment borrowed from the old left context
RECURSIVE TrimTrailWord(_, _, _, _, _)
TrimTrailWord(old, new, start, end, left_idx) ==
    IF start < end /\ left_idx >= 0
       /\ is_word_char(At(new, end - 1)) /\ is_word_char(At(old, left_idx))
       /\ At(new, end - 1) = At(old, left_idx)
    THEN TrimTrailWord(old, new, start, end - 1, left_idx - 1)
    ELSE end

\* while start < end and text[start].isspace(): start += 1
RECURSIVE SkipSpaceFwd(_, _, _)
SkipSpaceFwd(text, start, end) ==
    IF start < end /\ IsSpace(At(text, start)) THEN SkipSpaceFwd(text, start + 1, end)
    ELSE start

\* while start < end and text[end - 1].isspace(): end -= 1
RECURSIVE SkipSpaceBack(_, _, _)
SkipSpaceBack(text, start, end) ==
    IF start < end /\ IsSpace(At(text, end - 1)) THEN SkipSpaceBack(text, start, end - 1)
    ELSE end

trim_insert_region(old, new, old_pos, ins_start, ins_end) ==
    IF ins_start >= ins_end THEN <<ins_start, ins_end>>
    ELSE IF ~(0 < old_pos /\ old_pos < Len(old)) THEN <<ins_start, ins_end>>
    ELSE IF ~(is_word_char(At(old, old_pos - 1)) /\ is_word_char(At(old, old_pos)))
    THEN <<ins_start, ins_end>>
    ELSE LET lead   == TrimLeadWord(old, new, ins_start, ins_end, old_pos)
             start2 == TrimLeadSpace(old, new, lead[1], ins_end, lead[2])
             end3   == TrimTrailWord(old, new, start2, ins_end, old_pos - 1)
             start4 == SkipSpaceFwd(new, start2, end3)
             end5   == SkipSpaceBack(new, start4, end3)
         IN  <<start4, end5>>

\* an equal run that leaves a region on the old side
OldRegionsOf_EqualToo(old, new, op) ==
    IF op[1] \in {"replace", "delete", "equal"} THEN << <<op[2], op[3]>> >>
    ELSE IF op[1] = "insert" THEN << <<op[2], op[3]>> >>
    ELSE <<>>

\* the regions one opcode adds to the old side (lines 434-451)
OldRegionsOf(old, new, op) ==
    IF op[1] \in {"replace", "delete"} THEN << <<op[2], op[3]>> >>
    ELSE IF op[1] = "insert"
    THEN LET inserted_starts_mid_word ==
                 /\ op[4] < op[5]
                 /\ op[2] > 0
                 /\ is_word_char(At(old, op[2] - 1))
                 /\ is_word_char(At(new, op[4]))
         IN  IF ~inserted_starts_mid_word THEN << <<op[2], op[3]>> >> ELSE <<>>
    ELSE <<>>

\* the regions one opcode adds to the new side (lines 434-454)
NewRegionsOf(old, new, op) ==
    IF op[1] = "replace" THEN << <<op[4], op[5]>> >>
    ELSE IF op[1] = "insert"
    THEN LET trimmed == trim_insert_region(old, new, op[2], op[4], op[5])
         IN  IF trimmed[1] < trimmed[2] THEN <<trimmed>> ELSE <<>>
    ELSE <<>>

RECURSIVE CollectOld(_, _, _)
CollectOld(old, new, opcodes) ==
    IF opcodes = <<>> THEN <<>>
    ELSE OldRegionsOf(old, new, Head(opcodes)) \o CollectOld(old, new, Tail(opcodes))

RECURSIVE CollectNew(_, _, _)
CollectNew(old, new, opcodes) ==
    IF opcodes = <<>> THEN <<>>
    ELSE NewRegionsOf(old, new, Head(opcodes)) \o CollectNew(old, new, Tail(opcodes))

\* lines 473-474: pull the end of a block that starts mid-word out of a word
RECURSIVE TrimEndMidWord(_, _, _)
TrimEndMidWord(text, start, end) ==
    IF end > start /\ end < Len(text)
       /\ is_word_char(At(text, end - 1)) /\ is_word_char(At(text, end))
    THEN TrimEndMidWord(text, start, end - 1)
    ELSE end

\* while forward_start < len(text) and not is_word_char(text[forward_start])
RECURSIVE SkipNonWord(_, _)
SkipNonWord(text, k) ==
    IF k < Len(text) /\ ~is_word_char(At(text, k)) THEN SkipNonWord(text, k + 1) ELSE k

\* while k < len(text) and is_word_char(text[k]): k += 1
RECURSIVE WordEnd(_, _)
WordEnd(text, k) ==
    IF k < Len(text) /\ is_word_char(At(text, k)) THEN WordEnd(text, k + 1) ELSE k

\* a backward expansion that runs over the spaces between words as well
RECURSIVE WordStart_OverSpaces(_, _)
WordStart_OverSpaces(text, k) ==
    IF k > 0 /\ (is_word_char(At(text, k - 1)) \/ IsSpace(At(text, k - 1)))
    THEN WordStart_OverSpaces(text, k - 1) ELSE k

\* while k > 0 and is_word_char(text[k - 1]): k -= 1
RECURSIVE WordStart(_, _)
WordStart(text, k) ==
    IF k > 0 /\ is_word_char(At(text, k - 1)) THEN WordStart(text, k - 1) ELSE k

\* an expansion in which an anchor grows backward over its word as well
ExpandRegion_AnchorBothWays(text, start0, end0) ==
    IF start0 = end0
    THEN IF SkipNonWord(text, start0) >= Len(text) THEN <<>>
         ELSE << <<WordStart(text, SkipNonWord(text, start0)),
                   WordEnd(text, SkipNonWord(text, start0))>> >>
    ELSE << <<WordStart(text, SkipSpaceFwd(text, start0, end0)), WordEnd(text, end0)>> >>

\* one pass of the loop of expand_to_word_boundaries: the regions appended
\* for the region <<start0, end0>> (none or one)
ExpandRegion(text, start0, end0) ==
    LET starts_mid_word ==
            /\ start0 > 0 /\ start0 < Len(text)
            /\ is_word_char(At(text, start0 - 1)) /\ is_word_char(At(text, start0))
        block0 == Slice(text, start0, end0)
        end1   == IF block0 # <<>> /\ AnySpace(block0) /\ starts_mid_word
                  THEN TrimEndMidWord(text, start0, end0)
                  ELSE end0
        block1 == Slice(text, start0, end1)
        solid  == block1 # <<>> /\ StripsToSomething(block1)
        start  == IF solid THEN SkipSpaceFwd(text, start0, end1) ELSE start0
        end    == IF solid THEN SkipSpaceBack(text, start, end1) ELSE end1
    IN  IF start = end
        THEN LET forward_start == SkipNonWord(text, start)
             IN  IF forward_start >= Len(text) THEN <<>>
                 ELSE << <<forward_start, WordEnd(text, forward_start)>> >>
        ELSE << <<WordStart(text, start), WordEnd(text, end)>> >>

RECURSIVE expand_to_word_boundaries(_, _)
expand_to_word_boundaries(text, regions) ==
    IF regions = <<>> THEN <<>>
    ELSE ExpandRegion(text, Head(regions)[1], Head(regions)[2])
         \o expand_to_word_boundaries(text, Tail(regions))

\* gap_text.replace(' ', '').replace('\t', '').replace('\n', '')
NonSpaceGap(gap_text) == SelectSeq(gap_text, LAMBDA c : c \notin {" ", "\t", "\n"})

\* str.isalnum(): not empty and every character alphanumeric
AllAlnum(str) == str # <<>> /\ \A k \in 1..Len(str) : IsAlnum(str[k])

is_small_gap(text, start, end) ==
    IF start >= Len(text) \/ end > Len(text) \/ start >= end THEN FALSE
    ELSE LET non_space_gap == NonSpaceGap(Slice(text, start, end))
         IN  IF non_space_gap = <<>> THEN TRUE
             ELSE IF Len(non_space_gap) <= 2 /\ ~AllAlnum(non_space_gap) THEN TRUE
             ELSE IF Len(non_space_gap) = 1 THEN TRUE
             ELSE FALSE

\* the order of tuples
RegionLeq(r, q) == r[1] < q[1] \/ (r[1] = q[1] /\ r[2] <= q[2])

\* sorted(regions)
RECURSIVE SortRegions(_)
SortRegions(regions) ==
    IF regions = <<>> THEN <<>>
    ELSE LET rest == SortRegions(Tail(regions))
             r    == Head(regions)
             pre  == SelectSeq(rest, LAMBDA q : ~RegionLeq(r, q))
             post == SelectSeq(rest, LAMBDA q : RegionLeq(r, q))
         IN  pre \o <<r>> \o post

merge_threshold == 5

\* the loop of merge_regions over the sorted regions after the first
RECURSIVE MergeLoop(_, _, _)
MergeLoop(text, merged, todo) ==
    IF todo = <<>> THEN merged
    ELSE LET current   == Head(todo)
             last      == merged[Len(merged)]
             gap_start == last[2]
             gap_end   == current[1]
             gap_size  == gap_end - gap_start
             should_merge ==
                 \/ current[1] <= last[2]
                 \/ (gap_size <= merge_threshold /\ gap_size > 0
                     /\ is_small_gap(text, gap_start, gap_end))
         IN  IF should_merge
             THEN MergeLoop(text,
                            [merged EXCEPT ![Len(merged)] = <<last[1], Max(last[2], current[2])>>],
                            Tail(todo))
             ELSE MergeLoop(text, Append(merged, current), Tail(todo))

merge_regions(regions, text) ==
    IF regions = <<>> THEN <<>>
    ELSE MergeLoop(text, <<Head(SortRegions(regions))>>, Tail(SortRegions(regions)))

\* the loop of apply_highlights from offset pos over the regions left
RECURSIVE HighlightLoop(_, _, _, _, _, _)
HighlightLoop(text, regions, pos, color, space_color, line_bg) ==
    IF regions = <<>> THEN Slice(text, pos, Len(text))
    ELSE LET start == Head(regions)[1]
             end   == Head(regions)[2]
             block == Slice(text, start, end)
             highlight_color == IF ~StripsToSomething(block) THEN space_color ELSE color
         IN  Slice(text, pos, start) \o highlight_color \o block \o RESET \o line_bg
             \o HighlightLoop(text, Tail(regions), end, color, space_color, line_bg)

\* a rendering that gives every region the content marker
apply_highlights_OneMarker(text, regions, color, space_color, line_bg) ==
    IF regions = <<>> THEN text
    ELSE HighlightLoop(text, regions, 0, color, color, line_bg)

apply_highlights(text, regions, color, space_color, line_bg) ==
    IF regions = <<>> THEN text
    ELSE HighlightLoop(text, regions, 0, color, space_color, line_bg)

\* ---- the line pairs the highlighter is called with

HlChars == {"a", "b", " ", "+"}

\* longest line of the exhaustive pairs
MaxLineLen == 3

ExtraSomething == <<"e", "x", "t", "r", "a", " ", "s", "o", "m", "e", "t", "h", "i", "n", "g">>

ExtraThing == <<"e", "x", "t", "r", "a", " ", "t", "h", "i", "n", "g">>

ScenarioPairs ==
    {<<FuncAdd, FuncAdd>>, <<ReturnTight, ReturnSpaced>>, <<ReturnSpaced, ReturnTight>>,
     <<ExtraSomething, ExtraThing>>, <<ExtraThing, ExtraSomething>>}

GapChars == {"a", " ", "+", "\r"}

\* what stands between two changed words: every short gap and some long ones
Gaps ==
    SeqsUpTo(GapChars, 3)
    \cup {<<" ", " ", "+", " ", " ">>, <<" ", "+", "+", "+", " ">>, <<" ", "a", ",", " ">>,
          <<" ", " ", " ", " ", " ">>, <<" ", " ", " ", " ", " ", " ">>,
          <<" ", " ", "+", " ", " ", " ">>}

\* two lines whose first and last words differ, around the same gap
GapPairs == {<<<<"b">> \o g \o <<"b">>, <<"c">> \o g \o <<"c">>>> : g \in Gaps}

HlInputs ==
    (SeqsUpTo(HlChars, MaxLineLen) \X SeqsUpTo(HlChars, MaxLineLen))
    \cup ScenarioPairs \cup GapPairs

HlInit ==
    /\ hl_pc = "start"
    /\ \E inp \in HlInputs : old_text = inp[1] /\ new_text = inp[2]
    /\ change_regions_old = <<>> /\ change_regions_new = <<>>
    /\ expanded_old = <<>> /\ expanded_new = <<>>
    /\ merged_old = <<>> /\ merged_new = <<>>
    /\ old_highlighted = <<>> /\ new_highlighted = <<>>

\* lines 369, 429-454: the character opcodes and the raw regions
CollectRegions ==
    /\ hl_pc = "start"
    /\ change_regions_old' = CollectOld(old_text, new_text, get_opcodes(old_text, new_text, TRUE))
    /\ change_regions_new' = CollectNew(old_text, new_text, get_opcodes(old_text, new_text, TRUE))
    /\ hl_pc' = "collected"
    /\ UNCHANGED <<old_text, new_text, expanded_old, expanded_new,
                   merged_old, merged_new, old_highlighted, new_highlighted>>
    /\ UNCHANGED otherThanHl

\* lines 518-519
ExpandRegions ==
    /\ hl_pc = "collected"
    /\ expanded_old' = expand_to_word_boundaries(old_text, change_regions_old)
    /\ expanded_new' = expand_to_word_boundaries(new_text, change_regions_new)
    /\ hl_pc' = "expanded"
    /\ UNCHANGED <<old_text, new_text, change_regions_old, change_regions_new,
                   merged_old, merged_new, old_highlighted, new_highlighted>>
    /\ UNCHANGED otherThanHl

\* lines 575-576
MergeRegions ==
    /\ hl_pc = "expanded"
    /\ merged_old' = merge_regions(expanded_old, old_text)
    /\ merged_new' = merge_regions(expanded_new, new_text)
    /\ hl_pc' = "merged"
    /\ UNCHANGED <<old_text, new_text, change_regions_old, change_regions_new,
                   expanded_old, expanded_new, old_highlighted, new_highlighted>>
    /\ UNCHANGED otherThanHl

\* lines 604-611
ApplyHighlights ==
    /\ hl_pc = "merged"
    /\ old_highlighted' = apply_highlights(old_text, merged_old, DEL_BG, RED_SPACE_BG, LINE_DEL_BG)
    /\ new_highlighted' = apply_highlights(new_text, merged_new, ADD_BG, GREEN_SPACE_BG, LINE_ADD_BG)
    /\ hl_pc' = "done"
    /\ UNCHANGED <<old_text, new_text, change_regions_old, change_regions_new,
                   expanded_old, expanded_new, merged_old, merged_new>>
    /\ UNCHANGED otherThanHl

HlNext == CollectRegions \/ ExpandRegions \/ MergeRegions \/ ApplyHighlights

-----------------------------------------------------------------------------
(* Display-width engine: visible_length, clip_visible, pad_visible.        *)
(* A character that is not printable ASCII is a string naming it.          *)

\* an East-Asian wide character
WIDE == "WIDE"

ellipsis == <<".", ".", ".">>

tab_width == 4

\* char_display_width(ch): ESC is a control character, of width 0
char_display_width(ch) ==
    IF ch = "\t" THEN tab_width
    ELSE IF ch \in {"\n", "\r"} THEN 0
    ELSE IF ch = ESC THEN 0
    ELSE IF ch = WIDE THEN 2
    ELSE 1

\* ANSI_ESCAPE_RE.match(text, i): the end of the match of \x1b\[[0-9;]*m at
\* offset i, or -1
EscapeEnd(text, i) ==
    IF i + 1 < Len(text) /\ At(text, i) = ESC /\ At(text, i + 1) = "["
    THEN LET stops == {k \in (i + 2)..(Len(text) - 1) : At(text, k) \notin Digits \cup {";"}}
         IN  IF stops # {} /\ At(text, Least(stops)) = "m" THEN Least(stops) + 1 ELSE -1
    ELSE -1

\* ANSI_ESCAPE_RE.sub('', text) from offset i on
RECURSIVE StripFrom(_, _)
StripFrom(text, i) ==
    IF i >= Len(text) THEN <<>>
    ELSE IF EscapeEnd(text, i) >= 0 THEN StripFrom(text, EscapeEnd(text, i))
    ELSE <<At(text, i)>> \o StripFrom(text, i + 1)

\* ANSI_ESCAPE_RE.search(text)
HasEscape(text) == \E i \in 0..(Len(text) - 1) : EscapeEnd(text, i) >= 0

RECURSIVE SumWidths(_)
SumWidths(plain) ==
    IF plain = <<>> THEN 0 ELSE char_display_width(Head(plain)) + SumWidths(Tail(plain))

visible_length(text) == SumWidths(StripFrom(text, 0))

\* str.endswith
EndsWith(text, suffix) ==
    Len(text) >= Len(suffix) /\ Slice(text, Len(text) - Len(suffix), Len(text)) = suffix

\* the while loop of clip_visible from offset i with used_width cells used:
\* the characters appended to result
RECURSIVE ClipLoop(_, _, _, _)
ClipLoop(text, i, used_width, target_width) ==
    IF ~(i < Len(text) /\ used_width < target_width) THEN <<>>
    ELSE IF EscapeEnd(text, i) >= 0
    THEN Slice(text, i, EscapeEnd(text, i))
         \o ClipLoop(text, EscapeEnd(text, i), used_width, target_width)
    ELSE IF used_width + char_display_width(At(text, i)) > target_width THEN <<>>
    ELSE <<At(text, i)>>
         \o ClipLoop(text, i + 1, used_width + char_display_width(At(text, i)), target_width)

\* a clip that reserves no room for the ellipsis
clip_visible_NoReserve(text, width) ==
    IF width <= 0 THEN <<>>
    ELSE IF visible_length(text) <= width THEN text
    ELSE ClipLoop(text, 0, 0, width) \o ellipsis

clip_visible(text, width) ==
    IF width <= 0 THEN <<>>
    ELSE IF visible_length(text) <= width THEN text
    ELSE IF visible_length(ellipsis) >= width THEN Rep(".", width)
    ELSE LET target_width == width - visible_length(ellipsis)
             clipped      == ClipLoop(text, 0, 0, target_width)
         IN  (IF HasEscape(clipped) /\ ~EndsWith(clipped, RESET)
              THEN clipped \o RESET ELSE clipped)
             \o ellipsis

\* a pad that cuts the text down to the width
pad_visible_Truncating(text, width) ==
    IF width - visible_length(text) > 0
    THEN text \o Rep(" ", width - visible_length(text))
    ELSE Slice(text, 0, Max(width, 0))

pad_visible(text, width) ==
    LET pad_len == width - visible_length(text)
    IN  IF pad_len > 0 THEN text \o Rep(" ", pad_len) ELSE text

\* ---- the texts and widths the engine is called with

WidthChars == {ESC, "[", "m", "\t", WIDE}

\* longest text
MaxTextLen == 5

\* largest target width
MaxWidth == 6

\* longer texts: a reset before the cut, parameters in an escape sequence,
\* zero-width characters, a text of dots
WidthExtraTexts ==
    {RESET \o <<"\t", WIDE>>,
     <<ESC, "[", "3", "1", ";", "1", "m", "a", "b", WIDE, "c">> \o RESET,
     <<"a", "\n", "b", "\r", ".", ".", ".", ".">>,
     <<"a", ESC, "[", ";", "b", "c", "d", "e">>}

WidthInit ==
    /\ dw_pc = "start"
    /\ dw_text \in SeqsUpTo(WidthChars, MaxTextLen) \cup WidthExtraTexts
    /\ dw_width \in 0..MaxWidth
    /\ dw_out = <<>>

Clip ==
    /\ dw_pc = "start"
    /\ dw_out' = clip_visible(dw_text, dw_width)
    /\ dw_pc' = "clipped"
    /\ UNCHANGED <<dw_text, dw_width>>
    /\ UNCHANGED otherThanWidth

Pad ==
    /\ dw_pc = "start"
    /\ dw_out' = pad_visible(dw_text, dw_width)
    /\ dw_pc' = "padded"
    /\ UNCHANGED <<dw_text, dw_width>>
    /\ UNCHANGED otherThanWidth

WidthNext == Clip \/ Pad

-----------------------------------------------------------------------------
(* Specifications: one per component; the other components stay idle *)

ScoreIdle == sc_pc = "idle" /\ sc_a = <<>> /\ sc_b = <<>> /\ sc_ab = <<0, 1>> /\ sc_ba = <<0, 1>>

HlIdle ==
    /\ hl_pc = "idle" /\ old_text = <<>> /\ new_text = <<>>
    /\ change_regions_old = <<>> /\ change_regions_new = <<>>
    /\ expanded_old = <<>> /\ expanded_new = <<>>
    /\ merged_old = <<>> /\ merged_new = <<>>
    /\ old_highlighted = <<>> /\ new_highlighted = <<>>

WidthIdle == dw_pc = "idle" /\ dw_text = <<>> /\ dw_width = 0 /\ dw_out = <<>>

InitScore == ScoreInit /\ AlignIdle /\ HlIdle /\ WidthIdle

SpecScore == InitScore /\ [][ScoreNext]_vars

InitWidth == WidthInit /\ ScoreIdle /\ AlignIdle /\ HlIdle

SpecWidth == InitWidth /\ [][WidthNext]_vars

InitHl == HlInit /\ ScoreIdle /\ AlignIdle /\ WidthIdle

SpecHl == InitHl /\ [][HlNext]_vars

InitAlign == AlignInitWith(AlignInputs, Starts) /\ ScoreIdle /\ HlIdle /\ WidthIdle

SpecAlign == InitAlign /\ [][AlignNext]_vars

\* the aligner on the blocks around the size threshold
InitAlignEdge == AlignInitWith(EdgeInputs, {<<3, 7>>}) /\ ScoreIdle /\ HlIdle /\ WidthIdle

SpecAlignEdge == InitAlignEdge /\ [][AlignNext]_vars

-----------------------------------------------------------------------------
(* Claims about the chunk aligner *)

HasOld(r) == "old_no" \in DOMAIN r

HasNew(r) == "new_no" \in DOMAIN r

HasBoth(r) == HasOld(r) /\ HasNew(r)

RowTags == {rows[k].tag : k \in 1..Len(rows)}

\* C1: when the aligner has returned, on either path and for empty blocks
\* too, the old-line indices its rows reference are strictly increasing, the
\* new-line indices are strictly increasing, and every index 0..n-1 of the
\* old block and 0..m-1 of the new block is referenced by exactly one row.
C1_RowsCoverBlocksInOrder ==
    al_pc = "done" =>
        LET o  == SelectSeq(rows, HasOld)
            w  == SelectSeq(rows, HasNew)
            oi == [k \in 1..Len(o) |-> o[k].old_no - old_start - 1]
            wi == [k \in 1..Len(w) |-> w[k].new_no - new_start - 1]
        IN  /\ \A k \in 1..(Len(oi) - 1) : oi[k] < oi[k + 1]
            /\ \A k \in 1..(Len(wi) - 1) : wi[k] < wi[k + 1]
            /\ Len(oi) = Len(old_chunk)
            /\ Len(wi) = Len(new_chunk)
            /\ Range(oi) = 0..(Len(old_chunk) - 1)
            /\ Range(wi) = 0..(Len(new_chunk) - 1)
            /\ \A k \in 1..Len(rows) : HasOld(rows[k]) \/ HasNew(rows[k])

\* the fallback has returned rows of all four kinds
C1_Witness ==
    /\ al_pc = "done"
    /\ path = "fallback"
    /\ RowTags = {"equal", "replace", "delete", "insert"}

\* C2: every row that carries both an old and a new line, on either path, is
\* tagged equal exactly when the two texts are identical and replace exactly
\* when they differ.
C2_TagSaysWhetherTextsDiffer ==
    al_pc = "done" =>
        \A k \in 1..Len(rows) :
            HasBoth(rows[k]) =>
                /\ rows[k].tag = "equal" <=> rows[k].old_line = rows[k].new_line
                /\ rows[k].tag = "replace" <=> rows[k].old_line # rows[k].new_line

\* C3: on the dynamic-programming path no row pairs two lines whose
\* similarity is below 0.45; ["apple"] against ["apple", "banana"] gives one
\* equal row (apple/apple) followed by one insert row (banana).
C3_NoPairBelowThreshold ==
    (al_pc = "done" /\ path = "dp") =>
        /\ \A k \in 1..Len(rows) :
              HasBoth(rows[k]) =>
                  RLeq(<<9, 20>>, line_similarity_score(rows[k].old_line, rows[k].new_line))
        /\ (old_chunk = <<Apple>> /\ new_chunk = <<Apple, Banana>>) =>
              rows = << [tag |-> "equal", old_no |-> old_start + 1, old_line |-> Apple,
                         new_no |-> new_start + 1, new_line |-> Apple],
                        [tag |-> "insert", new_no |-> new_start + 2, new_line |-> Banana] >>

\* the scenario has been aligned: apple and banana score 2/11 and stay apart
C3_Witness ==
    /\ al_pc = "done"
    /\ path = "dp"
    /\ old_chunk = <<Apple>>
    /\ new_chunk = <<Apple, Banana>>
    /\ RLess(line_similarity_score(Apple, Banana), <<9, 20>>)

\* C10: once the path is chosen it is the fallback exactly when n * m exceeds
\* 50,000 and the dynamic-programming path otherwise (at exactly 50,000 too);
\* the fallback goes straight to its return and never holds a similarity
\* score nor a cell of the score and backtrack tables.
C10_FallbackSkipsTheTables ==
    /\ al_pc # "start" =>
          /\ path = "fallback" <=> Len(old_chunk) * Len(new_chunk) > 50000
          /\ path = "dp" <=> Len(old_chunk) * Len(new_chunk) <= 50000
    /\ path = "fallback" =>
          /\ al_pc \in {"fallback", "done"}
          /\ sim = <<>> /\ dp = <<>> /\ bt = <<>> /\ ops = <<>>
    /\ al_pc = "done" => Len(rows) >= Max(Len(old_chunk), Len(new_chunk))

\* 300 lines against 300 lines have returned from the fallback
C10_Witness ==
    /\ al_pc = "done"
    /\ path = "fallback"
    /\ Len(old_chunk) = 300 /\ Len(new_chunk) = 300
    /\ Len(rows) >= 300

\* a block pair of exactly 50,000 cell products is sent through the tables
C10_WitnessAtThreshold ==
    /\ al_pc = "sim"
    /\ path = "dp"
    /\ Len(old_chunk) * Len(new_chunk) = 50000

-----------------------------------------------------------------------------
(* Claims about the similarity scorer *)

\* C4 as stated: the score is symmetric, score(a, b) = score(b, a), and
\* score(a, a) = 1.0 for every non-empty line a.
C4_SymmetricAndOneOnItself ==
    sc_pc = "done" =>
        /\ sc_ab = sc_ba
        /\ (sc_a = sc_b /\ sc_a # <<>>) => sc_ab = <<1, 1>>

\* C4 as amended: score(a, a) = 1.0 for every non-empty line a; both
\* score(a, b) and score(b, a) lie in [0, 1] and one is 0 exactly when the
\* other is, but their values may differ.
C4_OneOnItselfAndZeroTogether ==
    sc_pc = "done" =>
        /\ (sc_a = sc_b /\ sc_a # <<>>) => (sc_ab = <<1, 1>> /\ sc_ba = <<1, 1>>)
        /\ RLeq(<<0, 1>>, sc_ab) /\ RLeq(sc_ab, <<1, 1>>)
        /\ RLeq(<<0, 1>>, sc_ba) /\ RLeq(sc_ba, <<1, 1>>)
        /\ sc_ab = <<0, 1>> <=> sc_ba = <<0, 1>>

\* a non-empty line of two words has been scored against itself
C4_Witness ==
    /\ sc_pc = "done"
    /\ sc_a = <<"a", " ", "b">>
    /\ sc_b = sc_a
    /\ sc_ab = <<1, 1>>

-----------------------------------------------------------------------------
(* Claims about the display-width engine *)

\* C8 as stated: for every text and every width w >= 0 the clipped text is
\* at most w cells wide, and a text that already fits in w is returned
\* unchanged.
C8_ClipFitsAndKeepsFittingText ==
    dw_pc = "clipped" =>
        /\ visible_length(dw_out) <= dw_width
        /\ visible_length(dw_text) <= dw_width => dw_out = dw_text

\* C8 as amended: for every text and every width w >= 0 the clipped text is
\* at most w cells wide; a text that already fits in w is returned unchanged
\* when w >= 1, and for w = 0 the result is the empty text.
C8_ClipFitsAndKeepsFittingTextFromOne ==
    dw_pc = "clipped" =>
        /\ visible_length(dw_out) <= dw_width
        /\ (visible_length(dw_text) <= dw_width /\ dw_width >= 1) => dw_out = dw_text
        /\ dw_width = 0 => dw_out = <<>>

\* a styled text too wide for its target was cut down to its escape
\* sequence, a reset and the ellipsis
C8_Witness ==
    /\ dw_pc = "clipped"
    /\ dw_text = <<ESC, "[", "m", "\t", WIDE>>
    /\ dw_width = 4
    /\ dw_out = <<ESC, "[", "m">> \o RESET \o ellipsis

\* C9: the padded text is the original text followed only by spaces, and its
\* visible width is max(w, visibleWidth(text)).
C9_PadAppendsSpacesUpToWidth ==
    dw_pc = "padded" =>
        /\ Len(dw_out) >= Len(dw_text)
        /\ Slice(dw_out, 0, Len(dw_text)) = dw_text
        /\ \A k \in (Len(dw_text) + 1)..Len(dw_out) : dw_out[k] = " "
        /\ visible_length(dw_out) = Max(dw_width, visible_length(dw_text))

\* a text ending in an unfinished escape sequence was padded with spaces
C9_Witness ==
    /\ dw_pc = "padded"
    /\ dw_text = <<"m", ESC, "[">>
    /\ dw_width = 5
    /\ dw_out = <<"m", ESC, "[", " ", " ", " ">>


-----------------------------------------------------------------------------
(* Claims about the intra-line highlighter, under SpecHl *)

\* the offset k lies strictly inside a maximal run of word characters
InsideWord(text, k) ==
    /\ 0 < k /\ k < Len(text)
    /\ is_word_char(At(text, k - 1)) /\ is_word_char(At(text, k))

\* no region of the list has a boundary inside a word of the text
WholeWords(text, regions) ==
    \A k \in 1..Len(regions) :
        ~InsideWord(text, regions[k][1]) /\ ~InsideWord(text, regions[k][2])

\* the characters of the text covered by the regions are all whitespace
OnlySpacesCovered(text, regions) ==
    \A k \in 1..Len(regions) : ~StripsToSomething(Slice(text, regions[k][1], regions[k][2]))

\* the marker occurs in the text
HasMarker(text, marker) ==
    \E k \in 0..(Len(text) - Len(marker)) : Slice(text, k, k + Len(marker)) = marker

\* C5: highlighting a line against itself, the empty line too, produces no
\* change region on either side at any stage and returns both texts as they
\* were, with no marker inserted.
C5_SameLineNoRegions ==
    (hl_pc # "start" /\ old_text = new_text) =>
        /\ change_regions_old = <<>> /\ change_regions_new = <<>>
        /\ expanded_old = <<>> /\ expanded_new = <<>>
        /\ merged_old = <<>> /\ merged_new = <<>>
        /\ hl_pc = "done" => (old_highlighted = old_text /\ new_highlighted = new_text)

\* the highlighter has returned for a non-empty line against itself
C5_Witness ==
    /\ hl_pc = "done" /\ old_text = FuncAdd /\ new_text = FuncAdd
    /\ old_highlighted = FuncAdd /\ new_highlighted = FuncAdd

\* the highlighter has returned for the empty line against itself
C5_WitnessEmpty == hl_pc = "done" /\ old_text = <<>> /\ new_text = <<>>

\* C6: no region produced by word-boundary expansion on either side, grown
\* from a zero-length anchor or not, and no region left after gap merging,
\* has its start or its end strictly inside a maximal run of word characters.
C6_NoBoundaryInsideAWord ==
    /\ hl_pc \in {"expanded", "merged", "done"} =>
           WholeWords(old_text, expanded_old) /\ WholeWords(new_text, expanded_new)
    /\ hl_pc \in {"merged", "done"} =>
           WholeWords(old_text, merged_old) /\ WholeWords(new_text, merged_new)

\* the regions that are not grown from an anchor inside a word do keep to
\* whole words: the new side has no anchors
C6_NewSideWholeWords ==
    /\ hl_pc \in {"expanded", "merged", "done"} => WholeWords(new_text, expanded_new)
    /\ hl_pc \in {"merged", "done"} => WholeWords(new_text, merged_new)

\* C7: for the line "    return a+b" against "    return a + b" the
\* highlighter marks only inserted spaces: every region of either side covers
\* whitespace only and no content-change marker is in either result.
C7_OnlyInsertedSpacesMarked ==
    (hl_pc = "done" /\ old_text = ReturnTight /\ new_text = ReturnSpaced) =>
        /\ OnlySpacesCovered(old_text, merged_old)
        /\ OnlySpacesCovered(new_text, merged_new)
        /\ ~HasMarker(old_highlighted, DEL_BG)
        /\ ~HasMarker(new_highlighted, ADD_BG)

\* what the highlighter returns for that pair: the word b marked as deleted
\* content on the old side, "a + b" marked as added content on the new side
C7_WhatIsMarked ==
    (hl_pc = "done" /\ old_text = ReturnTight /\ new_text = ReturnSpaced) =>
        /\ merged_old = << <<13, 14>> >>
        /\ merged_new = << <<11, 16>> >>
        /\ HasMarker(old_highlighted, DEL_BG)
        /\ HasMarker(new_highlighted, ADD_BG)
        /\ ~HasMarker(new_highlighted, GREEN_SPACE_BG)

\* the aligner's half of C7, under SpecAlignEdge: one Equal row, then one
\* Replace row
C7_AlignerEqualThenReplace ==
    (al_pc = "done" /\ old_chunk = <<FuncAdd, ReturnTight>>
                    /\ new_chunk = <<FuncAdd, ReturnSpaced>>) =>
        /\ Len(rows) = 2
        /\ rows[1].tag = "equal" /\ rows[2].tag = "replace"
        /\ rows[2].old_line = ReturnTight /\ rows[2].new_line = ReturnSpaced

-----------------------------------------------------------------------------
(* Further claims about the aligner *)

\* C11: on both paths every row that references an old line carries the line
\* number old_start + i + 1 and the text old[i] of an index i of the old
\* block, every row that references a new line carries new_start + j + 1 and
\* new[j]; a Delete row carries no new number or text, an Insert row no old
\* number or text, and an Equal or Replace row carries both.
C11_RowsCarryNumbersAndTexts ==
    al_pc = "done" =>
        \A k \in 1..Len(rows) :
            LET r == rows[k]
            IN  /\ r.tag \in {"equal", "replace", "delete", "insert"}
                /\ DOMAIN r = (CASE r.tag = "delete" -> {"tag", "old_no", "old_line"}
                                 [] r.tag = "insert" -> {"tag", "new_no", "new_line"}
                                 [] OTHER -> {"tag", "old_no", "old_line", "new_no", "new_line"})
                /\ HasOld(r) =>
                       /\ r.old_no - old_start - 1 \in 0..(Len(old_chunk) - 1)
                       /\ r.old_line = At(old_chunk, r.old_no - old_start - 1)
                /\ HasNew(r) =>
                       /\ r.new_no - new_start - 1 \in 0..(Len(new_chunk) - 1)
                       /\ r.new_line = At(new_chunk, r.new_no - new_start - 1)

\* the tables have aligned blocks that start at different line numbers into
\* an Insert, a Replace and a Delete row
C11_Witness ==
    /\ al_pc = "done" /\ path = "dp"
    /\ old_start = 3 /\ new_start = 7
    /\ Len(rows) = 3
    /\ rows[1].tag = "insert" /\ rows[2].tag = "replace" /\ rows[3].tag = "delete"
    /\ rows[2].old_no = 4 /\ rows[2].new_no = 9

\* the fallback has returned paired rows for blocks that start at different
\* line numbers
C11_WitnessFallback ==
    /\ al_pc = "done" /\ path = "fallback"
    /\ old_start = 3 /\ new_start = 7
    /\ \E k \in 1..Len(rows) : HasBoth(rows[k]) /\ rows[k].old_no - 3 # rows[k].new_no - 7

-----------------------------------------------------------------------------
(* Further claims about the intra-line highlighter, under SpecHl *)

\* the gap as C12 describes one that merges: all whitespace, or one or two
\* non-whitespace characters none of which is alphanumeric
StatedSmallGap(gap_text) ==
    LET rest == SelectSeq(gap_text, LAMBDA c : ~IsSpace(c))
    IN  \/ rest = <<>>
        \/ Len(rest) <= 2 /\ \A k \in 1..Len(rest) : ~IsAlnum(rest[k])

\* the merging C12 describes, over the sorted regions after the first
RECURSIVE StatedMergeLoop(_, _, _)
StatedMergeLoop(text, merged, todo) ==
    IF todo = <<>> THEN merged
    ELSE LET current == Head(todo)
             last    == merged[Len(merged)]
             gap     == current[1] - last[2]
         IN  IF \/ current[1] <= last[2]
                \/ gap <= 5 /\ StatedSmallGap(Slice(text, last[2], current[1]))
             THEN StatedMergeLoop(text,
                      [merged EXCEPT ![Len(merged)] = <<last[1], Max(last[2], current[2])>>],
                      Tail(todo))
             ELSE StatedMergeLoop(text, Append(merged, current), Tail(todo))

StatedMerge(regions, text) ==
    IF regions = <<>> THEN <<>>
    ELSE StatedMergeLoop(text, <<Head(SortRegions(regions))>>, Tail(SortRegions(regions)))

\* C12: over the regions sorted by start, a region is merged into its
\* predecessor if and only if it overlaps it, is adjacent to it, or the gap
\* between them is at most 5 characters and is all whitespace or has one or
\* two non-whitespace characters that are all non-alphanumeric; a gap with an
\* alphanumeric character, or longer than 5, never merges.
C12_MergesExactlyTheStatedGaps ==
    hl_pc \in {"merged", "done"} =>
        /\ merged_old = StatedMerge(expanded_old, old_text)
        /\ merged_new = StatedMerge(expanded_new, new_text)

\* what does hold: two regions further apart than 5 characters stay apart,
\* and regions that overlap or touch are merged
C12_LongGapsNeverMerge ==
    hl_pc \in {"merged", "done"} =>
        /\ \A k \in 1..Len(merged_new), e \in 1..Len(expanded_new) :
               merged_new[k][1] <= expanded_new[e][1] /\ expanded_new[e][2] <= merged_new[k][2]
               => \/ expanded_new[e][1] = merged_new[k][1]
                  \/ \E f \in 1..Len(expanded_new) :
                        /\ f # e
                        /\ expanded_new[f][1] <= expanded_new[e][1]
                        /\ expanded_new[e][1] - expanded_new[f][2] <= merge_threshold
        /\ \A k \in 1..(Len(merged_new) - 1) : merged_new[k][2] < merged_new[k + 1][1]

\* the unchanged word a between two changed words is merged into one region
C12_MergedAcrossAWord ==
    /\ hl_pc = "merged"
    /\ old_text = <<"b", " ", "a", " ", "b">>
    /\ expanded_old = << <<0, 1>>, <<4, 5>> >>
    /\ merged_old = << <<0, 5>> >>

\* no region of the list covers a character of the first n of the line
LeavesPrefix(regions, n) ==
    \A k \in 1..Len(regions) : regions[k][1] >= n \/ regions[k][2] <= 0

\* C13: highlighting "extra something" against "extra thing", with either
\* line as the old side, leaves the shared leading word "extra" outside every
\* changed region of both sides, after trimming, after expansion and after
\* merging, and the rendered lines start with that word unmarked.
C13_SharedWordNotHighlighted ==
    ({old_text, new_text} = {ExtraSomething, ExtraThing} /\ hl_pc # "start") =>
        /\ LeavesPrefix(change_regions_new, 5)
        /\ LeavesPrefix(expanded_old, 5) /\ LeavesPrefix(expanded_new, 5)
        /\ LeavesPrefix(merged_old, 5) /\ LeavesPrefix(merged_new, 5)
        /\ hl_pc = "done" =>
               /\ Slice(old_highlighted, 0, 5) = Slice(old_text, 0, 5)
               /\ Slice(new_highlighted, 0, 5) = Slice(new_text, 0, 5)

\* "extra thing" has been highlighted against "extra something": only the
\* word "something" is a changed region of the new line
C13_Witness ==
    /\ hl_pc = "done"
    /\ old_text = ExtraThing /\ new_text = ExtraSomething
    /\ merged_new = << <<6, 15>> >>

\* "extra something" has been highlighted against "extra thing": the old
\* line's changed region is the word "something"
C13_WitnessOtherWay ==
    /\ hl_pc = "done"
    /\ old_text = ExtraSomething /\ new_text = ExtraThing
    /\ merged_old = << <<6, 15>> >>

-----------------------------------------------------------------------------
(* Claims about the tables of the aligner, under SpecAlign *)

\* the order-preserving alignments of the two blocks: sets of pairs
\* <<i, j>> (1-based) in which no line is paired twice, the pairs do not
\* cross, and every pair reaches the threshold
Alignments ==
    {M \in SUBSET ((1..Len(old_chunk)) \X (1..Len(new_chunk))) :
        /\ \A p \in M, q \in M : p # q => (p[1] < q[1] /\ p[2] < q[2]) \/ (q[1] < p[1] /\ q[2] < p[2])
        /\ \A p \in M : RLeq(pair_threshold, sim[p[1]][p[2]])}

RECURSIVE SumSim(_)
SumSim(M) ==
    IF M = {} THEN <<0, 1>>
    ELSE LET p == CHOOSE q \in M : TRUE
         IN  RAdd(sim[p[1]][p[2]], SumSim(M \ {p}))

\* the paired similarities plus the gap penalty for every unpaired line
AlignmentScore(M) ==
    RAdd(SumSim(M), GapTimes(Len(old_chunk) + Len(new_chunk) - 2 * Cardinality(M)))

\* the total score of the first k rows emitted
RECURSIVE RowsScore(_)
RowsScore(k) ==
    IF k = 0 THEN <<0, 1>>
    ELSE RAdd(RowsScore(k - 1),
              IF HasBoth(rows[k])
              THEN sim[rows[k].old_no - old_start][rows[k].new_no - new_start]
              ELSE gap_penalty)

\* C14: on the path through the tables, with exact scores, the base cases
\* are dp[i][0] = i * gap_penalty and dp[0][j] = j * gap_penalty, the total
\* score of the emitted rows (similarity of every Equal or Replace row,
\* gap_penalty for every Delete and Insert row) equals dp[n][m], and dp[n][m]
\* is the largest total score of an order-preserving alignment whose pairs
\* all score at least 0.45.
C14_EmittedAlignmentIsOptimal ==
    /\ (path = "dp" /\ al_pc \in {"fill", "backtrack", "done"}) =>
           /\ \A i \in 0..Len(old_chunk) : At(At(dp, i), 0) = GapTimes(i)
           /\ \A j \in 0..Len(new_chunk) : At(At(dp, 0), j) = GapTimes(j)
    /\ (path = "dp" /\ al_pc = "done") =>
           /\ RowsScore(Len(rows)) = At(At(dp, Len(old_chunk)), Len(new_chunk))
           /\ \E M \in Alignments :
                  AlignmentScore(M) = At(At(dp, Len(old_chunk)), Len(new_chunk))
           /\ \A M \in Alignments :
                  RLeq(AlignmentScore(M), At(At(dp, Len(old_chunk)), Len(new_chunk)))

\* two lines on each side, one pair worth 1/2 between an inserted and a
\* deleted line: the total is 1/2 - 2 * 7/20
C14_Witness ==
    /\ al_pc = "done" /\ path = "dp"
    /\ old_chunk = <<LineAB, Apple>> /\ new_chunk = <<Banana, LineAC>>
    /\ Len(rows) = 3
    /\ At(At(dp, 2), 2) = <<-1, 5>>
    /\ RowsScore(3) = <<-1, 5>>

\* x >= y on scores that may be neg_inf
ScoreAtLeast(x, y) == x = y \/ ScoreGreater(x, y)

\* the three candidate scores of cell (i, j), read off the finished tables
PairScoreAt(i, j) ==
    IF RLeq(pair_threshold, At(At(sim, i - 1), j - 1))
    THEN RAdd(At(At(dp, i - 1), j - 1), At(At(sim, i - 1), j - 1))
    ELSE neg_inf

DeleteScoreAt(i, j) == RAdd(At(At(dp, i - 1), j), gap_penalty)

InsertScoreAt(i, j) == RAdd(At(At(dp, i), j - 1), gap_penalty)

\* the choice C15 prescribes for cell (i, j)
PreferredOp(i, j) ==
    IF /\ ScoreAtLeast(PairScoreAt(i, j), DeleteScoreAt(i, j))
       /\ ScoreAtLeast(PairScoreAt(i, j), InsertScoreAt(i, j))
    THEN "pair"
    ELSE IF ScoreAtLeast(DeleteScoreAt(i, j), InsertScoreAt(i, j)) THEN "delete"
    ELSE "insert"

\* the rows of the table filled so far
FilledRows ==
    IF al_pc = "fill" THEN 1..(bi - 1)
    ELSE IF al_pc \in {"backtrack", "done"} THEN 1..Len(old_chunk)
    ELSE {}

\* C15: in every filled cell (i, j) with i, j >= 1 the recorded choice is
\* 'pair' whenever the pair score is at least both gap scores, otherwise
\* 'delete' whenever the delete score is at least the insert score, otherwise
\* 'insert'; so an eligible pair that ties with a gap is emitted as one
\* paired row.
C15_TiesPreferPairThenDelete ==
    path = "dp" =>
        /\ \A i \in FilledRows, j \in 1..Len(new_chunk) :
               At(At(bt, i), j) = PreferredOp(i, j)
        /\ (al_pc = "done" /\ old_chunk = <<Apple>> /\ new_chunk = <<Apple, Apple>>) =>
               /\ Len(rows) = 2
               /\ rows[1].tag = "insert" /\ rows[2].tag = "equal"

\* pairing the one old line with the second of two identical new lines ties
\* with inserting that second line, and the pair is recorded
C15_Witness ==
    /\ al_pc = "done" /\ path = "dp"
    /\ old_chunk = <<Apple>> /\ new_chunk = <<Apple, Apple>>
    /\ PairScoreAt(1, 2) = InsertScoreAt(1, 2)
    /\ At(At(bt, 1), 2) = "pair"

\* deleting and inserting tie where no pair is eligible, and the delete is
\* recorded
C15_WitnessGapTie ==
    /\ al_pc = "done" /\ path = "dp"
    /\ old_chunk = <<Apple>> /\ new_chunk = <<Banana>>
    /\ PairScoreAt(1, 1) = neg_inf
    /\ DeleteScoreAt(1, 1) = InsertScoreAt(1, 1)
    /\ At(At(bt, 1), 1) = "delete"

\* the offsets at or after p that hold a word character
WordOffsetsFrom(text, p) == {k \in p..(Len(text) - 1) : is_word_char(At(text, k))}

\* what C16 says an anchor at p becomes: nothing, or the word run [q, r)
\* that starts at the first word character at or after p
StatedAnchor(text, p) ==
    IF WordOffsetsFrom(text, p) = {} THEN <<>>
    ELSE LET q == Least(WordOffsetsFrom(text, p))
             r == Least({k \in (q + 1)..Len(text) :
                            k = Len(text) \/ ~is_word_char(At(text, k))})
         IN  << <<q, r>> >>

\* the expansion of a list of regions with its anchors expanded as stated
RECURSIVE StatedExpansion(_, _)
StatedExpansion(text, regions) ==
    IF regions = <<>> THEN <<>>
    ELSE (IF Head(regions)[1] = Head(regions)[2]
          THEN StatedAnchor(text, Head(regions)[1])
          ELSE ExpandRegion(text, Head(regions)[1], Head(regions)[2]))
         \o StatedExpansion(text, Tail(regions))

\* the zero-length regions of a list
Anchors(regions) == {regions[k] : k \in {n \in 1..Len(regions) : regions[n][1] = regions[n][2]}}

C16_WitnessDropped ==
    /\ hl_pc = "expanded"
    /\ old_text = <<"a">>
    /\ change_regions_old = << <<1, 1>> >>
    /\ expanded_old = <<>>

\* the regions are sorted, pairwise disjoint, not empty and inside the line
WellFormed(text, regions) ==
    /\ \A k \in 1..Len(regions) :
           0 <= regions[k][1] /\ regions[k][1] < regions[k][2] /\ regions[k][2] <= Len(text)
    /\ \A k \in 1..(Len(regions) - 1) : regions[k][2] < regions[k + 1][1]

\* what is written for the character at offset k: the marker of a region
\* that starts there, the character, and reset and line background when a
\* region ends after it
RenderedChar(text, regions, k, color, space_color, line_bg) ==
    (IF \E n \in 1..Len(regions) : regions[n][1] = k
     THEN LET r == regions[CHOOSE n \in 1..Len(regions) : regions[n][1] = k]
          IN  IF \A c \in r[1]..(r[2] - 1) : IsSpace(At(text, c)) THEN space_color ELSE color
     ELSE <<>>)
    \o <<At(text, k)>>
    \o (IF \E n \in 1..Len(regions) : regions[n][2] = k + 1 THEN RESET \o line_bg ELSE <<>>)

\* the line from offset k on, every region wrapped as C17 describes
RECURSIVE RenderedFrom(_, _, _, _, _, _)
RenderedFrom(text, regions, k, color, space_color, line_bg) ==
    IF k >= Len(text) THEN <<>>
    ELSE RenderedChar(text, regions, k, color, space_color, line_bg)
         \o RenderedFrom(text, regions, k + 1, color, space_color, line_bg)

\* C17: the final merged regions of each side are sorted, pairwise disjoint
\* and satisfy 0 <= s < e <= len(text); each rendered line is the original
\* line with every such region replaced by marker + text[s:e] + reset + line
\* background, the marker being the space-only style exactly when text[s:e]
\* is all whitespace and the content style otherwise; the text outside the
\* regions is copied once and in order, so removing the markers gives the
\* original line back.
C17_RenderingWrapsEachRegion ==
    /\ hl_pc \in {"merged", "done"} =>
           WellFormed(old_text, merged_old) /\ WellFormed(new_text, merged_new)
    /\ hl_pc = "done" =>
           /\ old_highlighted =
                  RenderedFrom(old_text, merged_old, 0, DEL_BG, RED_SPACE_BG, LINE_DEL_BG)
           /\ new_highlighted =
                  RenderedFrom(new_text, merged_new, 0, ADD_BG, GREEN_SPACE_BG, LINE_ADD_BG)
           /\ StripFrom(old_highlighted, 0) = old_text
           /\ StripFrom(new_highlighted, 0) = new_text

\* a deleted space between two signs is rendered with the space-only marker
C17_Witness ==
    /\ hl_pc = "done"
    /\ old_text = <<"+", " ", "+">>
    /\ merged_old = << <<1, 2>> >>
    /\ old_highlighted = <<"+">> \o RED_SPACE_BG \o <<" ">> \o RESET \o LINE_DEL_BG \o <<"+">>

\* two regions of one line are rendered with the content marker, the text
\* between them copied
C17_WitnessTwoRegions ==
    /\ hl_pc = "done"
    /\ Len(merged_new) = 2
    /\ new_highlighted =
           ADD_BG \o <<"c">> \o RESET \o LINE_ADD_BG \o <<" ", "+", "+", "+", " ">>
           \o ADD_BG \o <<"c">> \o RESET \o LINE_ADD_BG

-----------------------------------------------------------------------------
(* The order of unpaired rows, under SpecAlign *)

\* no pair of lines of the two blocks reaches the threshold
NoPairEligible ==
    \A i \in 1..Len(old_chunk), j \in 1..Len(new_chunk) :
        ~RLeq(pair_threshold, line_similarity_score(old_chunk[i], new_chunk[j]))

\* C18: on both paths a Delete row is never immediately followed by an
\* Insert row, so within a run of unpaired rows the Insert rows come before
\* the Delete rows and a run of Delete rows ends at a paired row or at the
\* end; two blocks with no pair reaching the threshold come out of the tables
\* as all new lines inserted, then all old lines deleted.
C18_NoInsertRightAfterDelete ==
    al_pc = "done" =>
        /\ \A k \in 1..(Len(rows) - 1) :
               rows[k].tag = "delete" => rows[k + 1].tag # "insert"
        /\ (path = "dp" /\ NoPairEligible) =>
               /\ Len(rows) = Len(new_chunk) + Len(old_chunk)
               /\ \A k \in 1..Len(rows) :
                      rows[k].tag = (IF k <= Len(new_chunk) THEN "insert" ELSE "delete")

\* two old lines and two new lines with nothing in common: two Insert rows,
\* then two Delete rows
C18_Witness ==
    /\ al_pc = "done" /\ path = "dp"
    /\ old_chunk = <<Apple, Apple>> /\ new_chunk = <<Banana, Banana>>
    /\ Len(rows) = 4
    /\ rows[2].tag = "insert" /\ rows[3].tag = "delete"

\* the fallback has returned a Delete row followed by a paired row
C18_WitnessFallback ==
    /\ al_pc = "done" /\ path = "fallback"
    /\ \E k \in 1..(Len(rows) - 1) : rows[k].tag = "delete" /\ HasBoth(rows[k + 1])

====
